---- MODULE Spec2Model ----
(***************************************************************************)
(* A model of the ripcord text data model: NodeId, TextNode, TextRange,    *)
(* TextCursor, Position (src/text.rs), TextBuffer and Boundary             *)
(* (src/buffer.rs) and the Cursor contract (src/cursor.rs).                *)
(*                                                                         *)
(* Indices are 0-based as in the source; a Vec is a TLA+ sequence, so the  *)
(* element at source index i is v[i + 1].  A str is a sequence of Unicode  *)
(* scalar values, a Vec<u16> a sequence of UTF-16 code units.              *)
(***************************************************************************)
EXTENDS Integers, Sequences, FiniteSets, TLC

\* ------------------------------------------------------------------ bounds
MaxLen == 4
MaxBufLen == 2
MaxNodes == 3
MaxCurLen == 3
MaxDim == 2
NumThreads == 2
MaxCalls == 2

\* --------------------------------------------------------------- constants
LF == 10
MAX_COLUMN == 255

\* The scalar values texts are drawn from: LF, CR, 'a' and U+1F600 (which
\* needs a surrogate pair in UTF-16).
Chars == {10, 13, 97, 128512}
Texts == UNION {[1..n -> Chars] : n \in 0..MaxLen}

VARIABLES
    ID_PROVIDER,
    text, code_points, index, acc, width_descriminator, underflow, pc,
    node, lines_out, shown,
    pool, buffer, created, order, rendered,
    position, last_seek, taken, faulted,
    pa, pb, pres,
    ba, bb, bres,
    threads, completed

nodeVars == <<text, code_points, index, acc, width_descriminator, underflow,
              pc, node, lines_out, shown>>
bufVars == <<pool, buffer, created, order, rendered>>
curVars == <<position, last_seek, taken, faulted>>
posVars == <<pa, pb, pres>>
bndVars == <<ba, bb, bres>>
thrVars == <<threads, completed>>
vars == <<ID_PROVIDER, nodeVars, bufVars, curVars, posVars, bndVars, thrVars>>

\* std::cmp::max and std::cmp::min
CmpMax(a, b) == IF b >= a THEN b ELSE a

CmpMin(a, b) == IF b < a THEN b ELSE a

\* ------------------------------------------------------------------ UTF-16
EncodeChar(c) ==
    IF c < 65536
    THEN <<c>>
    ELSE <<55296 + ((c - 65536) \div 1024), 56320 + ((c - 65536) % 1024)>>

RECURSIVE EncodeUtf16(_)
EncodeUtf16(s) ==
    IF s = <<>> THEN <<>> ELSE EncodeChar(Head(s)) \o EncodeUtf16(Tail(s))

IsHighSurrogate(u) == u >= 55296 /\ u <= 56319
IsLowSurrogate(u) == u >= 56320 /\ u <= 57343

Utf16Err == [ok |-> FALSE, chars |-> <<>>]

\* String::from_utf16: Err on any unpaired surrogate, else the decoded string.
RECURSIVE FromUtf16(_)
FromUtf16(v) ==
    IF v = <<>> THEN [ok |-> TRUE, chars |-> <<>>]
    ELSE IF IsHighSurrogate(v[1])
    THEN IF Len(v) >= 2 /\ IsLowSurrogate(v[2])
         THEN LET r == FromUtf16(SubSeq(v, 3, Len(v)))
                  c == 65536 + (v[1] - 55296) * 1024 + (v[2] - 56320)
              IN  IF r.ok THEN [ok |-> TRUE, chars |-> <<c>> \o r.chars]
                  ELSE Utf16Err
         ELSE Utf16Err
    ELSE IF IsLowSurrogate(v[1]) THEN Utf16Err
    ELSE LET r == FromUtf16(Tail(v))
         IN  IF r.ok THEN [ok |-> TRUE, chars |-> <<v[1]>> \o r.chars]
             ELSE Utf16Err

\* ---------------------------------------------------------------- Position
PositionDefault == [line |-> 0, column |-> 0]

RECURSIVE BitAnd(_, _)
BitAnd(a, b) ==
    IF a = 0 \/ b = 0 THEN 0
    ELSE (a % 2) * (b % 2) + 2 * BitAnd(a \div 2, b \div 2)

\* Ordering results: -1 is Less, 0 is Equal, 1 is Greater.
CmpInt(a, b) == IF a < b THEN -1 ELSE IF a > b THEN 1 ELSE 0

\* Ordering::then: the first comparison that is not Equal decides.
Then(c, d) == IF c # 0 THEN c ELSE d

\* Position::clamp
clamp(p) == [line |-> p.line, column |-> CmpMin(p.column, MAX_COLUMN)]

\* Position::hash, `(self.line << 24 | self.column & MAX_COLUMN) as u32`.
\* The u32 is kept as its top 8 bits (hi) and its low 24 bits (lo), so its
\* value is hi * 2^24 + lo.  `&` binds tighter than `|`; the masked column is
\* below 2^24 and `line << 24` has its low 24 bits clear, so the low 24 bits
\* of the OR are the masked column and bits 24..31 are the low 8 bits of line;
\* the cast drops every bit of line << 24 from bit 32 up.
hash(p) == [hi |-> p.line % 256, lo |-> BitAnd(p.column, MAX_COLUMN)]

\* u32 comparison on the (hi, lo) representation.
U32Cmp(x, y) == Then(CmpInt(x.hi, y.hi), CmpInt(x.lo, y.lo))

\* impl PartialEq for Position
PositionEq(a, b) == hash(a) = hash(b)

\* impl PartialOrd for Position
PositionPartialCmp(a, b) == U32Cmp(hash(a), hash(b))

\* #[derive(Ord)] on Position: lexicographic over the fields line, column.
PositionCmp(a, b) == Then(CmpInt(a.line, b.line), CmpInt(a.column, b.column))

\* ---------------------------------------------------------------- Boundary
BoundaryDefault == [origin |-> PositionDefault, width |-> 0, height |-> 0]

union_TakeOther(self, other) ==
    [origin |-> self.origin, width |-> other.width, height |-> other.height]

union_OtherOrigin(self, other) ==
    [origin |-> other.origin,
     width |-> CmpMax(self.width, other.width),
     height |-> CmpMax(self.height, other.height)]

union(self, other) ==
    [origin |-> self.origin,
     width |-> CmpMax(self.width, other.width),
     height |-> CmpMax(self.height, other.height)]

intersect(self, other) ==
    [origin |-> self.origin,
     width |-> CmpMin(self.width, other.width),
     height |-> CmpMin(self.height, other.height)]

\* #[derive(Ord)] on Boundary: origin, width, height.
BoundaryCmp(a, b) ==
    Then(PositionCmp(a.origin, b.origin),
         Then(CmpInt(a.width, b.width), CmpInt(a.height, b.height)))

\* --------------------------------------------------------------- TextRange
RangeFrom(start, end) == [start |-> start, end |-> end]

units_Inclusive(r) == r.end - r.start + 1

units(r) == r.end - r.start

\* #[derive(Ord)] on TextRange: start, end.
TextRangeCmp(a, b) == Then(CmpInt(a.start, b.start), CmpInt(a.end, b.end))

\* usize subtraction: `end - start` with end < start panics (debug build) or
\* wraps (release build); either way the evaluation is recorded as an
\* underflow.
UnitsUnderflows(r) == r.end < r.start

\* ------------------------------------------------------------------ NodeId
\* AtomicUsize::fetch_add(1, SeqCst): returns the old value, stores old + 1.
FetchAddStored_NoIncrement(old) == old

FetchAddStored(old) == old + 1

\* ---------------------------------------------------------------- TextNode
prev_lf_NoSkip(a) == IF a = <<>> THEN 0 ELSE a[Len(a)].end

prev_lf(a) == IF a = <<>> THEN 0 ELSE a[Len(a)].end + 1

FoldInit == [acc |-> <<>>, width_descriminator |-> 0, underflow |-> FALSE]

\* The body of the closure passed to fold, for the element `code` at `idx`.
FoldStep(st, idx, code) ==
    IF code = LF
    THEN LET range == RangeFrom(prev_lf(st.acc), idx)
         IN  IF UnitsUnderflows(range)
             THEN [st EXCEPT !.underflow = TRUE]
             ELSE LET width == units(range)
                  IN  [acc |-> Append(st.acc, range),
                       width_descriminator |->
                           IF width > st.width_descriminator
                           THEN width ELSE st.width_descriminator,
                       underflow |-> FALSE]
    ELSE st

RECURSIVE Fold(_, _, _)
Fold(cp, idx, st) ==
    IF idx >= Len(cp) \/ st.underflow THEN st
    ELSE Fold(cp, idx + 1, FoldStep(st, idx, cp[idx + 1]))

MakeNode(id, cp, line_endings, width) ==
    [id |-> id,
     code_points |-> cp,
     line_endings |-> line_endings,
     dimensions |-> [origin |-> PositionDefault,
                     height |-> Len(line_endings),
                     width |-> width]]

new_delimitered(txt, id) ==
    LET cp == EncodeUtf16(txt)
        st == Fold(cp, 0, FoldInit)
    IN  MakeNode(id, cp, st.acc, st.width_descriminator)

\* &v[start..=end]
SliceInclusive_DropEnd(v, start, end) == SubSeq(v, start + 1, end)

SliceInclusive(v, start, end) == SubSeq(v, start + 1, end + 1)

\* &v[start..=end] panics when start > end + 1 or end + 1 > len.
SliceInclusiveFaults(v, start, end) == start > end + 1 \/ end + 1 > Len(v)

LinesFaults(n) ==
    \E i \in 1..Len(n.line_endings) :
        SliceInclusiveFaults(n.code_points, n.line_endings[i].start,
                             n.line_endings[i].end)

\* flat_map over Result: an Err is dropped, an Ok contributes its String.
RECURSIVE LinesOf(_, _)
LinesOf(cp, ranges) ==
    IF ranges = <<>> THEN <<>>
    ELSE LET r == Head(ranges)
             d == FromUtf16(SliceInclusive(cp, r.start, r.end))
         IN  (IF d.ok THEN <<d.chars>> ELSE <<>>) \o LinesOf(cp, Tail(ranges))

lines(n) == LinesOf(n.code_points, n.line_endings)

RECURSIVE Concat(_)
Concat(ss) == IF ss = <<>> THEN <<>> ELSE Head(ss) \o Concat(Tail(ss))

\* -------------------------------------------------------------- TextCursor
\* The outcome of TextCursor::seek on a cursor at `pos` over the units `cp`:
\* `&cp[src..to.column]` panics when src > to.column or to.column > len,
\* before the position is assigned; otherwise the position becomes `to` and
\* Some(slice) is returned.
seek_FromStart(cp, pos, to) ==
    IF pos.column > to.column \/ to.column > Len(cp)
    THEN [fault |-> TRUE, ret |-> <<"panic">>, position |-> pos]
    ELSE [fault |-> FALSE,
          ret |-> <<"Some", SubSeq(cp, 1, to.column)>>,
          position |-> to]

seek_Checked(cp, pos, to) ==
    IF pos.column > to.column \/ to.column > Len(cp)
    THEN [fault |-> FALSE, ret |-> <<"None">>, position |-> pos]
    ELSE [fault |-> FALSE,
          ret |-> <<"Some", SubSeq(cp, pos.column + 1, to.column)>>,
          position |-> to]

seek(cp, pos, to) ==
    LET src == pos.column
    IN  IF src > to.column \/ to.column > Len(cp)
        THEN [fault |-> TRUE, ret |-> <<"panic">>, position |-> pos]
        ELSE [fault |-> FALSE,
              ret |-> <<"Some", SubSeq(cp, src + 1, to.column)>>,
              position |-> to]

\* Ord for Vec<u16> and Vec<TextRange>: lexicographic, a proper prefix is Less.
RECURSIVE CmpUnits(_, _)
CmpUnits(v, w) ==
    IF v = <<>> THEN (IF w = <<>> THEN 0 ELSE -1)
    ELSE IF w = <<>> THEN 1
    ELSE Then(CmpInt(Head(v), Head(w)), CmpUnits(Tail(v), Tail(w)))

RECURSIVE CmpRanges(_, _)
CmpRanges(v, w) ==
    IF v = <<>> THEN (IF w = <<>> THEN 0 ELSE -1)
    ELSE IF w = <<>> THEN 1
    ELSE Then(TextRangeCmp(Head(v), Head(w)), CmpRanges(Tail(v), Tail(w)))

TextNodeCmp_SkipId(a, b) ==
    Then(CmpUnits(a.code_points, b.code_points),
         Then(CmpRanges(a.line_endings, b.line_endings),
              BoundaryCmp(a.dimensions, b.dimensions)))

\* #[derive(Ord)] on TextNode: id, code_points, line_endings, dimensions.
TextNodeCmp(a, b) ==
    Then(CmpInt(a.id, b.id),
         Then(CmpUnits(a.code_points, b.code_points),
              Then(CmpRanges(a.line_endings, b.line_endings),
                   BoundaryCmp(a.dimensions, b.dimensions))))

\* impl PartialOrd for TextNode
TextNodePartialCmp(a, b) == CmpInt(a.id, b.id)

\* -------------------------------------------------------------- TextBuffer
\* BTreeSet<TextNode> is the sequence of its elements in iteration order.
\* insert: an element comparing Equal to the new one keeps its place and the
\* new one is dropped; otherwise the new one goes before the first element
\* it is Less than.
BTreeInsert(s, n) ==
    LET notLess == {i \in 1..Len(s) : TextNodeCmp(n, s[i]) <= 0}
        k == IF notLess = {} THEN Len(s) + 1
             ELSE CHOOSE i \in notLess : \A j \in notLess : i <= j
    IN  IF k <= Len(s) /\ TextNodeCmp(n, s[k]) = 0 THEN s
        ELSE SubSeq(s, 1, k - 1) \o <<n>> \o SubSeq(s, k, Len(s))

TextBufferNew == [nodes |-> <<>>, boundary |-> BoundaryDefault]

push(buf, n) ==
    [nodes |-> BTreeInsert(buf.nodes, n),
     boundary |-> union(buf.boundary, n.dimensions)]

\* impl Display for TextBuffer: every line of every node, in iteration order.
RECURSIVE DisplayNodes(_)
DisplayNodes(ns) ==
    IF ns = <<>> THEN <<>>
    ELSE Concat(lines(Head(ns))) \o DisplayNodes(Tail(ns))

Display(buf) == DisplayNodes(buf.nodes)

DisplayFaults(buf) == \E i \in 1..Len(buf.nodes) : LinesFaults(buf.nodes[i])

\* ========================================================================
\* Construction of one node, its lines() and its rendering
\* (TextNode::new_delimitered step by step, then test_line_break).
\* ========================================================================
NoNode == MakeNode(0, <<>>, <<>>, 0)

NotRendered == [done |-> FALSE, out |-> <<>>]

NoSeek == [called |-> FALSE]

\* The value of the variables a specification does not use.
NodeIdle ==
    /\ text = <<>>
    /\ code_points = <<>>
    /\ index = 0
    /\ acc = <<>>
    /\ width_descriminator = 0
    /\ underflow = FALSE
    /\ pc = "idle"
    /\ node = NoNode
    /\ lines_out = <<>>
    /\ shown = <<>>

BufIdle ==
    /\ pool = {}
    /\ buffer = TextBufferNew
    /\ created = <<>>
    /\ order = <<>>
    /\ rendered = NotRendered

CurIdle ==
    /\ position = PositionDefault
    /\ last_seek = NoSeek
    /\ taken = <<>>
    /\ faulted = FALSE

NotCompared == [done |-> FALSE]

NotApplied == [done |-> FALSE]

PosIdle == pa = PositionDefault /\ pb = PositionDefault /\ pres = NotCompared

BndIdle == ba = BoundaryDefault /\ bb = BoundaryDefault /\ bres = NotApplied

ThrIdle == threads = <<>> /\ completed = [ids |-> {}, count |-> 0]

\* The text of test_line_break: "hello i am\n\n\nsomething interesting.\n".
ScenarioText ==
    <<104, 101, 108, 108, 111, 32, 105, 32, 97, 109, 10, 10, 10,
      115, 111, 109, 101, 116, 104, 105, 110, 103, 32,
      105, 110, 116, 101, 114, 101, 115, 116, 105, 110, 103, 46, 10>>

\* The text "abc\n".
AbcText == <<97, 98, 99, 10>>

InitNode ==
    /\ ID_PROVIDER = 1
    /\ text \in Texts \cup {ScenarioText, AbcText}
    /\ code_points = <<>>
    /\ index = 0
    /\ acc = <<>>
    /\ width_descriminator = 0
    /\ underflow = FALSE
    /\ pc = "start"
    /\ node = NoNode
    /\ lines_out = <<>>
    /\ shown = <<>>
    /\ BufIdle /\ CurIdle /\ PosIdle /\ BndIdle /\ ThrIdle

\* text.as_ref().encode_utf16().collect()
Encode ==
    /\ pc = "start"
    /\ code_points' = EncodeUtf16(text)
    /\ pc' = "fold"
    /\ UNCHANGED <<ID_PROVIDER, text, index, acc, width_descriminator,
                   underflow, node, lines_out, shown>>
    /\ UNCHANGED <<bufVars, curVars, posVars, bndVars, thrVars>>

\* One iteration of the fold over the enumerated code units.
FoldNext ==
    /\ pc = "fold"
    /\ index < Len(code_points)
    /\ LET st == FoldStep([acc |-> acc,
                           width_descriminator |-> width_descriminator,
                           underflow |-> underflow],
                          index, code_points[index + 1])
       IN  /\ acc' = st.acc
           /\ width_descriminator' = st.width_descriminator
           /\ underflow' = st.underflow
           /\ pc' = IF st.underflow THEN "fault" ELSE "fold"
    /\ index' = index + 1
    /\ UNCHANGED <<ID_PROVIDER, text, code_points, node, lines_out, shown>>
    /\ UNCHANGED <<bufVars, curVars, posVars, bndVars, thrVars>>

\* The fold is over: dimensions, NodeId::new() and the node itself.
Build ==
    /\ pc = "fold"
    /\ index = Len(code_points)
    /\ node' = MakeNode(ID_PROVIDER, code_points, acc, width_descriminator)
    /\ ID_PROVIDER' = FetchAddStored(ID_PROVIDER)
    /\ pc' = "built"
    /\ UNCHANGED <<text, code_points, index, acc, width_descriminator,
                   underflow, lines_out, shown>>
    /\ UNCHANGED <<bufVars, curVars, posVars, bndVars, thrVars>>

\* node.lines()
CallLines ==
    /\ pc = "built"
    /\ IF LinesFaults(node)
       THEN pc' = "fault" /\ UNCHANGED lines_out
       ELSE pc' = "lines" /\ lines_out' = lines(node)
    /\ UNCHANGED <<ID_PROVIDER, text, code_points, index, acc,
                   width_descriminator, underflow, node, shown>>
    /\ UNCHANGED <<bufVars, curVars, posVars, bndVars, thrVars>>

\* test_line_break: push the node into a new buffer and format the buffer.
PushAndDisplay ==
    /\ pc = "lines"
    /\ shown' = Display(push(TextBufferNew, node))
    /\ pc' = "shown"
    /\ UNCHANGED <<ID_PROVIDER, text, code_points, index, acc,
                   width_descriminator, underflow, node, lines_out>>
    /\ UNCHANGED <<bufVars, curVars, posVars, bndVars, thrVars>>

NextNode == Encode \/ FoldNext \/ Build \/ CallLines \/ PushAndDisplay

SpecNode == InitNode /\ [][NextNode]_vars

\* ---- properties of SpecNode ----
SetMax(S) == IF S = {} THEN 0 ELSE CHOOSE x \in S : \A y \in S : y <= x

\* 0-based indices of the LF code units of cp.
LfIndices(cp) == {i \in 0..(Len(cp) - 1) : cp[i + 1] = LF}

\* Index at which the line terminated by the LF at index i starts.
LineStart(cp, i) ==
    LET before == {j \in LfIndices(cp) : j < i}
    IN  IF before = {} THEN 0 ELSE SetMax(before) + 1

LongestLine(cp) == SetMax({i - LineStart(cp, i) : i \in LfIndices(cp)})

Constructed == pc \in {"built", "lines", "shown"}

\* C3: the node's height is the number of LF units of the text, its width
\* is the largest end - start over the ranges found, i.e. the length of the
\* longest LF-terminated line without its LF (0 and 0 when the text has no
\* LF), and its origin is the default position.
C3_Dimensions ==
    Constructed =>
        /\ node.dimensions.height =
               Cardinality({i \in 1..Len(text) : text[i] = LF})
        /\ node.dimensions.height = Cardinality(LfIndices(node.code_points))
        /\ node.dimensions.width =
               SetMax({node.line_endings[k].end - node.line_endings[k].start :
                          k \in 1..Len(node.line_endings)})
        /\ node.dimensions.width = LongestLine(node.code_points)
        /\ (LfIndices(node.code_points) = {} =>
                node.dimensions.height = 0 /\ node.dimensions.width = 0)
        /\ node.dimensions.origin = [line |-> 0, column |-> 0]

C3_Witness ==
    /\ pc = "built"
    /\ node.dimensions.height = 2
    /\ node.dimensions.width = 2
    /\ node.code_points[Len(node.code_points)] # LF

RangesWellFormed(cp, rs) ==
    /\ \A k \in 1..Len(rs) :
        /\ rs[k].start = (IF k = 1 THEN 0 ELSE rs[k - 1].end + 1)
        /\ rs[k].start <= rs[k].end
        /\ rs[k].end < Len(cp)
        /\ cp[rs[k].end + 1] = LF
        /\ \A i \in rs[k].start..(rs[k].end - 1) : cp[i + 1] # LF
    /\ \A j, k \in 1..Len(rs) : j < k => rs[j].end < rs[k].start

\* C10: at every step of the scan and in the built node the ranges are well
\* formed (first starts at 0, each next at the previous end + 1,
\* start <= end < number of units, LF exactly at the end, strictly
\* increasing), units() never underflows, lines() never faults and returns
\* exactly dimensions.height strings.
C10_RangesWellFormed ==
    /\ RangesWellFormed(code_points, acc)
    /\ \A k \in 1..Len(acc) : acc[k].end < index
    /\ ~underflow
    /\ pc # "fault"
    /\ Constructed => /\ RangesWellFormed(node.code_points, node.line_endings)
                      /\ ~LinesFaults(node)
    /\ pc \in {"lines", "shown"} => Len(lines_out) = node.dimensions.height

C10_Witness ==
    /\ pc = "lines"
    /\ Len(lines_out) = 2
    /\ 128512 \in {text[i] : i \in 1..Len(text)}
    /\ Len(node.code_points) > Len(text)

LastLF(s) == SetMax({i \in 1..Len(s) : s[i] = LF})

\* C5: the concatenation of lines() is the text cut just after its last LF
\* (the whole text when it ends in LF), every line ends with its only LF,
\* "abc\n" yields exactly one line equal to it, and displaying a buffer that
\* holds only this node gives the same text.
C5_RoundTrip ==
    /\ pc \in {"lines", "shown"} =>
        /\ Concat(lines_out) = SubSeq(text, 1, LastLF(text))
        /\ (Len(text) > 0 /\ text[Len(text)] = LF => Concat(lines_out) = text)
        /\ \A k \in 1..Len(lines_out) :
            LET l == lines_out[k]
            IN  /\ Len(l) >= 1
                /\ l[Len(l)] = LF
                /\ \A i \in 1..(Len(l) - 1) : l[i] # LF
        /\ (text = AbcText => lines_out = <<<<97, 98, 99, 10>>>>)
    /\ pc = "shown" =>
        /\ shown = SubSeq(text, 1, LastLF(text))
        /\ (Len(text) > 0 /\ text[Len(text)] = LF => shown = text)

C5_Witness ==
    /\ pc = "shown"
    /\ text = ScenarioText
    /\ shown = ScenarioText
    /\ Len(lines_out) = 4

\* ========================================================================
\* A TextBuffer: nodes are constructed, pushed in any order, and the buffer
\* is formatted.
\* ========================================================================
BufChars == {10, 97}
BufTexts == UNION {[1..n -> BufChars] : n \in 0..MaxBufLen}

InitBuffer ==
    /\ ID_PROVIDER = 1
    /\ pool = {}
    /\ buffer = TextBufferNew
    /\ created = <<>>
    /\ order = <<>>
    /\ rendered = NotRendered
    /\ NodeIdle /\ CurIdle /\ PosIdle /\ BndIdle /\ ThrIdle

\* TextNode::new_delimitered(t); `created` remembers the text of each id.
Construct ==
    /\ Len(created) < MaxNodes
    /\ \E t \in BufTexts :
        /\ pool' = pool \cup {new_delimitered(t, ID_PROVIDER)}
        /\ created' = Append(created, t)
    /\ ID_PROVIDER' = FetchAddStored(ID_PROVIDER)
    /\ UNCHANGED <<buffer, order, rendered>>
    /\ UNCHANGED <<nodeVars, curVars, posVars, bndVars, thrVars>>

\* buffer.push(n); `order` remembers the ids in push order.
Push ==
    /\ \E n \in pool :
        /\ buffer' = push(buffer, n)
        /\ pool' = pool \ {n}
        /\ order' = Append(order, n.id)
    /\ rendered' = NotRendered
    /\ UNCHANGED <<ID_PROVIDER, created>>
    /\ UNCHANGED <<nodeVars, curVars, posVars, bndVars, thrVars>>

\* format!("{}", buffer)
Show ==
    /\ ~rendered.done
    /\ ~DisplayFaults(buffer)
    /\ rendered' = [done |-> TRUE, out |-> Display(buffer)]
    /\ UNCHANGED <<ID_PROVIDER, pool, buffer, created, order>>
    /\ UNCHANGED <<nodeVars, curVars, posVars, bndVars, thrVars>>

NextBuffer == Construct \/ Push \/ Show

SpecBuffer == InitBuffer /\ [][NextBuffer]_vars

\* ---- properties of SpecBuffer ----
Contained == {buffer.nodes[i] : i \in 1..Len(buffer.nodes)}

NodeById(id) == CHOOSE n \in Contained : n.id = id

\* C1: after any pushes the boundary's width and height are the maxima of
\* the contained nodes' widths and heights (0 when empty), its origin is
\* (0,0), and with two nodes it is n1.dimensions.union(n2.dimensions)
\* whichever was pushed first.
C1_BoundaryIsUnion ==
    /\ buffer.boundary.width = SetMax({n.dimensions.width : n \in Contained})
    /\ buffer.boundary.height = SetMax({n.dimensions.height : n \in Contained})
    /\ buffer.boundary.origin = [line |-> 0, column |-> 0]
    /\ Len(order) = 2 =>
        buffer.boundary = union(NodeById(order[1]).dimensions,
                                NodeById(order[2]).dimensions)

C1_Witness ==
    /\ Len(order) = 2
    /\ order[1] > order[2]
    /\ buffer.boundary.width = 1
    /\ buffer.boundary.height = 2
    /\ \A n \in Contained : n.dimensions # buffer.boundary

\* What the node built from t renders as: t up to and including its last LF.
RenderedText(t) == SubSeq(t, 1, LastLF(t))

RECURSIVE ExpectedRender(_, _)
ExpectedRender(id, pushed) ==
    IF id > Len(created) THEN <<>>
    ELSE (IF id \in pushed THEN RenderedText(created[id]) ELSE <<>>)
             \o ExpectedRender(id + 1, pushed)

\* C4: the set iterates in strictly ascending identity order whatever the
\* push order, it holds every pushed node, the derived total order and the
\* identity-only partial order agree with the order of the identities on all
\* constructed nodes, and display is the concatenation, by ascending
\* identity, of each pushed node's lines in text order.
C4_IdentityOrder ==
    /\ \A i, j \in 1..Len(buffer.nodes) :
        i < j => buffer.nodes[i].id < buffer.nodes[j].id
    /\ Len(buffer.nodes) = Len(order)
    /\ {n.id : n \in Contained} = {order[i] : i \in 1..Len(order)}
    /\ \A a, b \in pool \cup Contained :
        /\ (TextNodeCmp(a, b) = -1) = (a.id < b.id)
        /\ (TextNodeCmp(a, b) = 1) = (a.id > b.id)
        /\ TextNodePartialCmp(a, b) = TextNodeCmp(a, b)
    /\ rendered.done =>
        rendered.out =
            ExpectedRender(1, {order[i] : i \in 1..Len(order)})

C4_Witness ==
    /\ rendered.done
    /\ Len(order) = 3
    /\ order[1] > order[2]
    /\ created[1] = <<97, 10>>
    /\ created[2] = <<10, 10>>
    /\ created[3] = <<97, 10>>
    /\ rendered.out = <<97, 10, 10, 10, 97, 10>>

\* ========================================================================
\* A TextCursor over one node, driven by seek.
\* ========================================================================
\* The text "ab".
AbText == <<97, 98>>

CurTexts == UNION {[1..n -> Chars] : n \in 0..MaxCurLen} \cup {AbText}

SeekTargets == [line : 0..1, column : 0..(2 * MaxCurLen + 1)]

\* TextCursor::new(&node) for a node built by new_delimitered.
InitCursor ==
    /\ text \in CurTexts
    /\ node = new_delimitered(text, 1)
    /\ ID_PROVIDER = 2
    /\ position = PositionDefault
    /\ last_seek = NoSeek
    /\ taken = <<>>
    /\ faulted = FALSE
    /\ code_points = <<>> /\ index = 0 /\ acc = <<>>
    /\ width_descriminator = 0 /\ underflow = FALSE /\ pc = "idle"
    /\ lines_out = <<>> /\ shown = <<>>
    /\ BufIdle /\ PosIdle /\ BndIdle /\ ThrIdle

\* cursor.seek(&to); a panic ends the run.  `last_seek` remembers the call
\* and `taken` the concatenation of the slices returned so far.
Seek ==
    /\ ~faulted
    /\ \E to \in SeekTargets :
        LET r == seek(node.code_points, position, to)
        IN  /\ position' = r.position
            /\ faulted' = r.fault
            /\ last_seek' = [called |-> TRUE, from |-> position, to |-> to,
                             ret |-> r.ret]
            /\ taken' = IF r.ret[1] = "Some" THEN taken \o r.ret[2] ELSE taken
    /\ UNCHANGED <<ID_PROVIDER, nodeVars, bufVars, posVars, bndVars, thrVars>>

NextCursor == Seek

SpecCursor == InitCursor /\ [][NextCursor]_vars

\* ---- properties of SpecCursor ----
\* C6: a seek from column c to a column in c..n returns Some of exactly the
\* units at indices c .. to.column - 1 and leaves position = to (line and
\* column); the lines play no part; the slices of successive seeks from a
\* fresh cursor concatenate to the node's first position.column units.
C6_SeekSlice ==
    /\ (/\ last_seek.called
        /\ last_seek.from.column <= last_seek.to.column
        /\ last_seek.to.column <= Len(node.code_points)) =>
            /\ last_seek.ret[1] = "Some"
            /\ Len(last_seek.ret[2]) =
                   last_seek.to.column - last_seek.from.column
            /\ \A i \in 1..Len(last_seek.ret[2]) :
                   last_seek.ret[2][i] =
                       node.code_points[last_seek.from.column + i]
            /\ position = last_seek.to
    /\ ~faulted =>
            /\ Len(taken) = position.column
            /\ \A i \in 1..Len(taken) : taken[i] = node.code_points[i]

C6_Witness ==
    /\ last_seek.called
    /\ ~faulted
    /\ last_seek.from.column = 1
    /\ last_seek.to.column = 3
    /\ last_seek.from.line # last_seek.to.line
    /\ Len(last_seek.ret[2]) = 2
    /\ Len(node.code_points) > 3

\* C7: seek never returns None; a target column beyond the node's units or
\* below the current column is a fault that leaves the position as it was;
\* no other seek faults; a non-faulted cursor's column is at most the
\* number of units.
C7_SeekFaults ==
    /\ last_seek.called =>
        /\ last_seek.ret[1] # "None"
        /\ (last_seek.ret[1] = "panic") =
               (\/ last_seek.to.column > Len(node.code_points)
                \/ last_seek.to.column < last_seek.from.column)
        /\ (last_seek.ret[1] = "panic") = faulted
        /\ faulted => position = last_seek.from
    /\ ~faulted => position.column <= Len(node.code_points)

C7_Witness ==
    /\ faulted
    /\ text = AbText
    /\ last_seek.from = [line |-> 0, column |-> 2]
    /\ last_seek.to = [line |-> 0, column |-> 1]
    /\ position = [line |-> 0, column |-> 2]

\* ========================================================================
\* Position: equality and the two orderings of a pair of positions.
\* ========================================================================
PosLines == {0, 1, 2, 256, 257}
PosColumns == {0, 1, 44, 255, 256, 300}
Positions == [line : PosLines, column : PosColumns]

InitPosition ==
    /\ ID_PROVIDER = 1
    /\ pa \in Positions
    /\ pb \in Positions
    /\ pres = NotCompared
    /\ NodeIdle /\ BufIdle /\ CurIdle /\ BndIdle /\ ThrIdle

\* a == b, a.partial_cmp(&b), a.cmp(&b)
Compare ==
    /\ ~pres.done
    /\ pres' = [done |-> TRUE,
                eq |-> PositionEq(pa, pb),
                partial_cmp |-> PositionPartialCmp(pa, pb),
                cmp |-> PositionCmp(pa, pb)]
    /\ UNCHANGED <<pa, pb>>
    /\ UNCHANGED <<ID_PROVIDER, nodeVars, bufVars, curVars, bndVars, thrVars>>

\* a = Position::clamp(a)
ClampA ==
    /\ ~pres.done
    /\ clamp(pa) # pa
    /\ pa' = clamp(pa)
    /\ UNCHANGED <<pb, pres>>
    /\ UNCHANGED <<ID_PROVIDER, nodeVars, bufVars, curVars, bndVars, thrVars>>

NextPosition == Compare \/ ClampA

SpecPosition == InitPosition /\ [][NextPosition]_vars

\* ---- properties of SpecPosition ----
\* The packed key (line << 24 | (column & 255)) mod 2^32 as the pair of its
\* top 8 bits and its low 8 bits (bits 8..23 are always 0).
PackedKey(p) == <<p.line % 256, p.column % 256>>

PackedKeyCmp(a, b) ==
    IF PackedKey(a)[1] # PackedKey(b)[1]
    THEN (IF PackedKey(a)[1] < PackedKey(b)[1] THEN -1 ELSE 1)
    ELSE IF PackedKey(a)[2] # PackedKey(b)[2]
    THEN (IF PackedKey(a)[2] < PackedKey(b)[2] THEN -1 ELSE 1)
    ELSE 0

\* C8: a == b iff the packed keys are equal, and every ordering comparison
\* of a and b, partial_cmp and cmp alike, is the comparison of the packed
\* keys, so positions that compare equal are never Less or Greater.
C8_OrderingByHash ==
    pres.done =>
        /\ pres.eq = (PackedKey(pa) = PackedKey(pb))
        /\ pres.partial_cmp = PackedKeyCmp(pa, pb)
        /\ pres.cmp = PackedKeyCmp(pa, pb)
        /\ pres.eq => (pres.partial_cmp = 0 /\ pres.cmp = 0)

\* C8, the part the code satisfies: == and partial_cmp follow the packed key.
C8_EqAndPartialByHash ==
    pres.done =>
        /\ pres.eq = (PackedKey(pa) = PackedKey(pb))
        /\ pres.partial_cmp = PackedKeyCmp(pa, pb)

\* ========================================================================
\* Boundary: union and intersect of a pair of boundaries, both ways round.
\* ========================================================================
BndOrigins == {[line |-> 0, column |-> 0], [line |-> 1, column |-> 2]}
Boundaries == [origin : BndOrigins, width : 0..MaxDim, height : 0..MaxDim]

InitBoundary ==
    /\ ID_PROVIDER = 1
    /\ ba \in Boundaries
    /\ bb \in Boundaries
    /\ bres = NotApplied
    /\ NodeIdle /\ BufIdle /\ CurIdle /\ PosIdle /\ ThrIdle

\* a.union(b) and b.union(a)
DoUnion ==
    /\ ~bres.done
    /\ bres' = [done |-> TRUE, op |-> "union",
                ab |-> union(ba, bb), ba |-> union(bb, ba)]
    /\ UNCHANGED <<ba, bb>>
    /\ UNCHANGED <<ID_PROVIDER, nodeVars, bufVars, curVars, posVars, thrVars>>

\* a.intersect(b) and b.intersect(a)
DoIntersect ==
    /\ ~bres.done
    /\ bres' = [done |-> TRUE, op |-> "intersect",
                ab |-> intersect(ba, bb), ba |-> intersect(bb, ba)]
    /\ UNCHANGED <<ba, bb>>
    /\ UNCHANGED <<ID_PROVIDER, nodeVars, bufVars, curVars, posVars, thrVars>>

NextBoundary == DoUnion \/ DoIntersect

SpecBoundary == InitBoundary /\ [][NextBoundary]_vars

\* ---- properties of SpecBoundary ----
\* C9: a.union(b) keeps a.origin and has the larger width and the larger
\* height, a.intersect(b) keeps a.origin and has the smaller ones; b's
\* origin plays no part, so a.op(b) and b.op(a) agree in width and height
\* and have origins a.origin and b.origin.
C9_UnionIntersect ==
    bres.done =>
        /\ bres.ab.origin = ba.origin
        /\ bres.ba.origin = bb.origin
        /\ bres.ab.width = bres.ba.width
        /\ bres.ab.height = bres.ba.height
        /\ bres.op = "union" =>
            /\ bres.ab.width =
                   (IF ba.width > bb.width THEN ba.width ELSE bb.width)
            /\ bres.ab.height =
                   (IF ba.height > bb.height THEN ba.height ELSE bb.height)
            /\ \A o \in BndOrigins :
                   union(ba, [bb EXCEPT !.origin = o]) = bres.ab
        /\ bres.op = "intersect" =>
            /\ bres.ab.width =
                   (IF ba.width < bb.width THEN ba.width ELSE bb.width)
            /\ bres.ab.height =
                   (IF ba.height < bb.height THEN ba.height ELSE bb.height)
            /\ \A o \in BndOrigins :
                   intersect(ba, [bb EXCEPT !.origin = o]) = bres.ab

C9_Witness ==
    /\ bres.done
    /\ bres.op = "union"
    /\ ba.origin # bb.origin
    /\ ba.width < bb.width
    /\ ba.height > bb.height
    /\ bres.ab # bres.ba

\* ========================================================================
\* NodeId::new() called concurrently from several threads.
\* ========================================================================
Threads == 1..NumThreads

InitThreads ==
    /\ ID_PROVIDER = 1
    /\ threads = [t \in Threads |->
                     [pc |-> "idle", before |-> {}, id |-> 0, calls |-> 0]]
    /\ completed = [ids |-> {}, count |-> 0]
    /\ NodeIdle /\ BufIdle /\ CurIdle /\ PosIdle /\ BndIdle

\* Thread t enters NodeId::new(); `before` remembers the identities that
\* earlier calls have already returned.
Call(t) ==
    /\ threads[t].pc = "idle"
    /\ threads[t].calls < MaxCalls
    /\ threads' = [threads EXCEPT ![t].pc = "called",
                                  ![t].before = completed.ids]
    /\ UNCHANGED <<ID_PROVIDER, completed>>
    /\ UNCHANGED <<nodeVars, bufVars, curVars, posVars, bndVars>>

\* ID_PROVIDER.fetch_add(1, Ordering::SeqCst): one atomic step.
FetchAdd(t) ==
    /\ threads[t].pc = "called"
    /\ threads' = [threads EXCEPT ![t].pc = "fetched",
                                  ![t].id = ID_PROVIDER]
    /\ ID_PROVIDER' = FetchAddStored(ID_PROVIDER)
    /\ UNCHANGED completed
    /\ UNCHANGED <<nodeVars, bufVars, curVars, posVars, bndVars>>

\* Thread t returns Self(id); `completed` remembers the identities returned
\* and how many calls returned.
Return(t) ==
    /\ threads[t].pc = "fetched"
    /\ completed' = [ids |-> completed.ids \cup {threads[t].id},
                     count |-> completed.count + 1]
    /\ threads' = [threads EXCEPT ![t].pc = "idle",
                                  ![t].calls = threads[t].calls + 1]
    /\ UNCHANGED ID_PROVIDER
    /\ UNCHANGED <<nodeVars, bufVars, curVars, posVars, bndVars>>

NextThreads == \E t \in Threads : Call(t) \/ FetchAdd(t) \/ Return(t)

SpecThreads == InitThreads /\ [][NextThreads]_vars

\* ---- properties of SpecThreads ----
\* The threads whose call has done its fetch_add and has not returned yet.
Fetched == {t \in Threads : threads[t].pc = "fetched"}

\* C2: under every interleaving no two calls get the same identity, the
\* identities issued by n calls are exactly 1..n, and a call that began
\* after another returned has the larger identity.
C2_UniqueIds ==
    /\ Cardinality(completed.ids) = completed.count
    /\ \A t \in Fetched : threads[t].id \notin completed.ids
    /\ \A t, u \in Fetched : t # u => threads[t].id # threads[u].id
    /\ completed.ids \cup {threads[t].id : t \in Fetched} =
           1..(completed.count + Cardinality(Fetched))
    /\ \A t \in Fetched : \A i \in threads[t].before : i < threads[t].id

C2_Witness ==
    /\ \E t, u \in Threads :
        /\ t # u
        /\ threads[t].pc = "fetched"
        /\ threads[u].pc = "fetched"
        /\ threads[t].before # {}
        /\ threads[u].before = {}
        /\ threads[u].id > threads[t].id
    /\ completed.count >= 1

====
